---- MODULE Spec2Model ----
(***************************************************************************)
(* The expense feed of DashboardView (src/components/dashboard-view.tsx):  *)
(* the React state of the component, the closure that useCallback keeps    *)
(* for loadExpenses, the requests in flight to the expense API, and one    *)
(* action per handler or continuation of the component.                    *)
(*                                                                         *)
(* A handler's synchronous part, the state updates React batches for it,   *)
(* the render that follows and the effects that render schedules form one  *)
(* action.  An `await` splits a handler in two actions: the part that      *)
(* issues the request and the continuation that runs on its completion.    *)
(***************************************************************************)
EXTENDS Integers, Sequences, FiniteSets, Bags, TLC

\* ------------------------------------------------------------- constants

\* dashboard-view.tsx:15
PAGE_SIZE == 10

\* ---------------------------------------------------------------- bounds

\* Session tokens the auth context may supply: 1..MaxToken; 0 is `null`.
MaxToken == 1
\* Page fetches issued in one behaviour.
MaxFetches == 2
\* Mutation requests (add / update / delete) issued in one behaviour.
MaxMutations == 1

NoToken == 0
Tokens == 1..MaxToken

\* Dates a form submits, as day numbers: the day of the oldest seeded record
\* and a later one, so that a record can tie with its neighbour and can pass it.
Dates == {1, 3}
\* Category labels a form submits, in alphabetical order: 1 and 2 occur in
\* the seed data, 3 does not.
Categories == {2, 3}

\* Sizes of the user's collection on the server when the view mounts: one that
\* fits in a single short page and one of a full page followed by a short one.
InitSizes == {PAGE_SIZE - 1, PAGE_SIZE + 3}

\* ----------------------------------------------------------------- state

VARIABLES
  expenses,   \* useState<Expense[]>([])            (line 19)
  isLoading,  \* useState(true)                     (line 20)
  page,       \* useState(1)                        (line 21)
  hasMore,    \* useState(true)                     (line 22)
  token,      \* useAuth().token                    (line 24)
  mounted,    \* the first render's effect has run  (line 50)
  cbPage,     \* `page` as closed over by the memoized loadExpenses (line 28, 48)
  cbHasMore,  \* `hasMore` as closed over by the memoized loadExpenses
  fetches,    \* bag of the fetchExpenses calls awaiting completion (line 32)
  muts,       \* bag of the addExpense / updateExpense / deleteExpense calls
              \* awaiting completion (lines 60, 75, 91)
  srv,        \* the user's collection on the server
  nextId,     \* next id the server assigns
  logouts,    \* calls of logout() so far                        (line 40)
  redirects,  \* calls of router.push('/login') so far          (line 41)
  toasts,     \* success notifications so far          (lines 62, 77, 93)
  errorToasts,\* "destructive" notifications so far     (lines 65, 80, 96)
  nFetch,     \* page fetches issued so far
  nMut,       \* mutation requests issued so far
  nLoads,     \* page fetches completed successfully so far
  returned,   \* bag of the records those fetches returned
  anyShort,   \* one of those fetches returned fewer than PAGE_SIZE records
  removed     \* ids of the entries that a successful deleteExpense has removed

vars == <<expenses, isLoading, page, hasMore, token, mounted, cbPage, cbHasMore,
          fetches, muts, srv, nextId, logouts, redirects, toasts, errorToasts,
          nFetch, nMut, nLoads, returned, anyShort, removed>>

feed == <<expenses, isLoading, page, hasMore>>
history == <<nLoads, returned, anyShort, removed>>
loads == <<nLoads, returned, anyShort>>
notified == <<logouts, redirects, toasts, errorToasts>>

\* ------------------------------------------------------- sequence helpers

Last(s) == s[Len(s)]
Front(s) == SubSeq(s, 1, Len(s) - 1)
Range(s) == {s[i] : i \in DOMAIN s}
Min(a, b) == IF a < b THEN a ELSE b

RECURSIVE SeqToBag(_)
SeqToBag(s) == IF s = <<>> THEN EmptyBag ELSE SeqToBag(Tail(s)) (+) SetToBag({Head(s)})

\* --------------------------------------------------------------- records

\* new Date(e.date).getTime(): a calendar day as milliseconds.
GetTime(d) == d * 86400000

\* The comparator of every sort of the component:
\* (a, b) => new Date(b.date).getTime() - new Date(a.date).getTime()
Compare(a, b) == GetTime(b.date) - GetTime(a.date)

\* Array.prototype.sort is stable: an element goes after every element the
\* comparator does not put behind it.
RECURSIVE InsertSorted(_, _)
InsertSorted(s, r) ==
  IF s = <<>> THEN <<r>>
  ELSE IF Compare(Last(s), r) <= 0 THEN Append(s, r)
  ELSE Append(InsertSorted(Front(s), r), Last(s))

RECURSIVE SortDesc(_)
SortDesc(s) == IF s = <<>> THEN <<>> ELSE InsertSorted(SortDesc(Front(s)), Last(s))

\* ---------------------------------------------------------------- server

\* The user's collection when the view mounts: one record per consecutive day,
\* as the seed script inserts them; the oldest record is the only one of its
\* category.
SeedRec(i) == [id |-> i, date |-> i, category |-> IF i = 1 THEN 1 ELSE 2]
SeedData(n) == [i \in 1..n |-> SeedRec(i)]

\* fetchExpenses(token, page, pageSize): the page-th slice of the collection.
PageOf(coll, p) == SubSeq(coll, (p - 1) * PAGE_SIZE + 1, Min(p * PAGE_SIZE, Len(coll)))

\* Ids the server assigns to the records created in a behaviour start here.
FirstNewId == PAGE_SIZE + 4

SrvUpdate(coll, rec) == [i \in DOMAIN coll |-> IF coll[i].id = rec.id THEN rec ELSE coll[i]]
SrvDelete(coll, id) == SelectSeq(coll, LAMBDA e : e.id # id)

\* ------------------------------------------------- the component's updaters

\* As LoadedItems, the fetched page replacing the list instead of extending it.
LoadedItemsReplacing(prev, data) == SortDesc(data)

\* line 36: prevExpenses => [...prevExpenses, ...data].sort(...)
LoadedItems(prev, data) == SortDesc(prev \o data)

\* As AddedItems, without the sort.
AddedItemsUnsorted(prev, newExpense) == <<newExpense>> \o prev

\* line 61: prev => [newExpense, ...prev].sort(...)
AddedItems(prev, newExpense) == SortDesc(<<newExpense>> \o prev)

\* As UpdatedItems, without the sort.
UpdatedItemsUnsorted(prev, updatedExpense) ==
  [i \in DOMAIN prev |-> IF prev[i].id = updatedExpense.id THEN updatedExpense ELSE prev[i]]

\* As UpdatedItems, adding the record when no entry has its id.
UpdatedItemsUpserting(prev, updatedExpense) ==
  IF \E i \in DOMAIN prev : prev[i].id = updatedExpense.id
  THEN SortDesc([i \in DOMAIN prev |->
                  IF prev[i].id = updatedExpense.id THEN updatedExpense ELSE prev[i]])
  ELSE SortDesc(Append(prev, updatedExpense))

\* line 76: prev => prev.map(exp => exp._id === updatedExpense._id ? updatedExpense : exp).sort(...)
UpdatedItems(prev, updatedExpense) ==
  SortDesc([i \in DOMAIN prev |->
             IF prev[i].id = updatedExpense.id THEN updatedExpense ELSE prev[i]])

\* As DeletedItems, with the test of the filter inverted.
DeletedItemsInverted(prev, expenseId) == SelectSeq(prev, LAMBDA e : e.id = expenseId)

\* line 92: prev => prev.filter(exp => exp._id !== expenseId)
DeletedItems(prev, expenseId) == SelectSeq(prev, LAMBDA e : e.id # expenseId)

\* As NextHasMore, assigning the comparison: setHasMore(data.length >= PAGE_SIZE).
NextHasMoreAssigned(cur, data) == Len(data) >= PAGE_SIZE

\* lines 33-35: if (data.length < PAGE_SIZE) setHasMore(false)
NextHasMore(cur, data) == IF Len(data) < PAGE_SIZE THEN FALSE ELSE cur

\* line 37: prevPage => prevPage + 1
NextPage(prevPage) == prevPage + 1

\* As LoadGuard, without the test of the token.
LoadGuardAnyToken(tok, cHasMore) == cHasMore

\* line 29: if (token && hasMore), on the values the closure holds
LoadGuard(tok, cHasMore) == tok # NoToken /\ cHasMore

\* As NoTokenLoading, without the `else if (!token)` branch.
NoTokenLoadingKept(tok, cur) == cur

\* lines 45-47: else if (!token) setIsLoading(false)
NoTokenLoading(tok, cur) == IF tok = NoToken THEN FALSE ELSE cur

\* As SettledLoading, without the `finally`.
SettledLoadingKept(cur) == cur

\* lines 42-44: finally { setIsLoading(false) }
SettledLoading(cur) == FALSE

\* As ScrollGuard, without the test of hasMore.
ScrollGuardAnyMore == ~isLoading

\* line 106: the scroll position is near the bottom && !isLoading && hasMore
ScrollGuard == ~isLoading /\ hasMore

\* line 101: expenses.map(e => e.category)
CategoryLabels(items) == [i \in DOMAIN items |-> items[i].category]

\* As Distinct, without the Set.
DistinctSkipped(s) == s

\* line 101: [...new Set(labels)]: the first occurrence of every label, in order.
RECURSIVE Distinct(_)
Distinct(s) ==
  IF s = <<>> THEN <<>>
  ELSE LET front == Distinct(Front(s))
       IN IF Last(s) \in Range(front) THEN front ELSE Append(front, Last(s))

\* line 101: .sort() without a comparator: ascending order of the labels.
RECURSIVE SortAscending(_)
SortAscending(s) ==
  IF s = <<>> THEN <<>>
  ELSE LET front == SortAscending(Front(s))
           x == Last(s)
           k == Cardinality({i \in DOMAIN front : front[i] <= x})
       IN SubSeq(front, 1, k) \o <<x>> \o SubSeq(front, k + 1, Len(front))

\* lines 100-102: [...new Set(expenses.map(e => e.category))].sort()
allCategories == SortAscending(Distinct(CategoryLabels(expenses)))

\* As MutationGuard, without the test of the token.
MutationGuardAnyToken(tok) == TRUE

\* lines 55, 70, 85: if (!token) { console.error(...); return; }
MutationGuard(tok) == tok # NoToken

\* ------------------------------------------------------------------ Init

Init ==
  /\ expenses = <<>>
  /\ isLoading = TRUE
  /\ page = 1
  /\ hasMore = TRUE
  /\ token \in {NoToken} \cup Tokens
  /\ mounted = FALSE
  /\ cbPage = 1
  /\ cbHasMore = TRUE
  /\ fetches = EmptyBag
  /\ muts = EmptyBag
  /\ \E n \in InitSizes : srv = SeedData(n)
  /\ nextId = FirstNewId
  /\ logouts = 0
  /\ redirects = 0
  /\ toasts = 0
  /\ errorToasts = 0
  /\ nFetch = 0
  /\ nMut = 0
  /\ nLoads = 0
  /\ returned = EmptyBag
  /\ anyShort = FALSE
  /\ removed = {}

\* --------------------------------------------------------------- actions

\* lines 28-48, up to the await: loadExpenses() as memoized with the token
\* `tok` and the `page` and `hasMore` of the render that created it.  The
\* server reads the page as it is when the request arrives; the call then
\* resolves with it (LoadSuccess) or rejects (LoadFailure).
loadExpenses(tok, cPage, cHasMore) ==
  IF LoadGuard(tok, cHasMore)
  THEN /\ nFetch < MaxFetches
       /\ isLoading' = TRUE
       /\ fetches' = fetches (+) SetToBag({[page |-> cPage, data |-> PageOf(srv, cPage)]})
       /\ nFetch' = nFetch + 1
  ELSE /\ isLoading' = NoTokenLoading(tok, isLoading)
       /\ UNCHANGED <<fetches, nFetch>>

\* lines 50-52: the effect of the first render.
Mount ==
  /\ ~mounted
  /\ mounted' = TRUE
  /\ loadExpenses(token, page, hasMore)
  /\ UNCHANGED <<notified, expenses, page, hasMore, token, cbPage, cbHasMore, muts, srv,
                 nextId, nMut, history>>

\* The auth context supplies another token (login, logout elsewhere, renewal):
\* the render re-creates loadExpenses (line 48), closing over the current
\* `page` and `hasMore`, and the effect (lines 50-52) calls it.
SetToken(t) ==
  /\ mounted
  /\ t # token
  /\ token' = t
  /\ cbPage' = page
  /\ cbHasMore' = hasMore
  /\ loadExpenses(t, page, hasMore)
  /\ UNCHANGED <<notified, expenses, page, hasMore, mounted, muts, srv, nextId, nMut, history>>

\* lines 105-109: handleScroll with the viewport near the bottom.  It calls
\* the memoized loadExpenses, whose `page` and `hasMore` are the closure's.
Scroll ==
  /\ mounted
  /\ IF ScrollGuard
     THEN loadExpenses(token, cbPage, cbHasMore)
     ELSE UNCHANGED <<isLoading, fetches, nFetch>>
  /\ UNCHANGED <<notified, expenses, page, hasMore, token, mounted, cbPage, cbHasMore, muts,
                 srv, nextId, nMut, history>>

\* lines 33-37 and 43: the continuation of a fetch that succeeded.
LoadSuccess(f) ==
  /\ BagIn(f, fetches)
  /\ LET data == f.data IN
       /\ hasMore' = NextHasMore(hasMore, data)
       /\ expenses' = LoadedItems(expenses, data)
       /\ page' = NextPage(page)
       /\ returned' = returned (+) SeqToBag(data)
       /\ anyShort' = (anyShort \/ Len(data) < PAGE_SIZE)
  /\ isLoading' = SettledLoading(isLoading)
  /\ nLoads' = nLoads + 1
  /\ fetches' = fetches (-) SetToBag({f})
  /\ UNCHANGED <<notified, token, mounted, cbPage, cbHasMore, muts, srv, nextId, nFetch,
                 nMut, removed>>

\* As LoadFailure, with the setPage of line 37 in the `finally`.
LoadFailureAdvancing(f) ==
  /\ BagIn(f, fetches)
  /\ logouts' = logouts + 1
  /\ redirects' = redirects + 1
  /\ UNCHANGED <<toasts, errorToasts>>
  /\ token' = NoToken
  /\ page' = NextPage(page)
  /\ IF token # NoToken
     THEN /\ cbPage' = page'
          /\ cbHasMore' = hasMore
          /\ isLoading' = NoTokenLoading(NoToken, SettledLoading(isLoading))
     ELSE /\ isLoading' = SettledLoading(isLoading)
          /\ UNCHANGED <<cbPage, cbHasMore>>
  /\ fetches' = fetches (-) SetToBag({f})
  /\ UNCHANGED <<expenses, hasMore, mounted, muts, srv, nextId, nFetch, nMut, history>>

\* lines 38-44: the continuation of a fetch that failed: logout(), redirect,
\* and the `finally`.  logout() clears the token; when that changes the token,
\* the render re-creates loadExpenses and the effect calls it without a token
\* (line 46).
LoadFailure(f) ==
  /\ BagIn(f, fetches)
  /\ logouts' = logouts + 1
  /\ redirects' = redirects + 1
  /\ UNCHANGED <<toasts, errorToasts>>
  /\ token' = NoToken
  /\ IF token # NoToken
     THEN /\ cbPage' = page
          /\ cbHasMore' = hasMore
          /\ isLoading' = NoTokenLoading(NoToken, SettledLoading(isLoading))
     ELSE /\ isLoading' = SettledLoading(isLoading)
          /\ UNCHANGED <<cbPage, cbHasMore>>
  /\ fetches' = fetches (-) SetToBag({f})
  /\ UNCHANGED <<expenses, page, hasMore, mounted, muts, srv, nextId, nFetch, nMut,
                 history>>

\* The ids the update and delete handlers are called with: the oldest seeded
\* record and the records created in the behaviour.  The handlers take any
\* id: the record may be in `expenses`, or not (not yet loaded, or gone by
\* the time the handler or its continuation runs; line 89 looks it up and
\* line 93 allows for its absence).
Targets == {1} \cup (FirstNewId..(nextId - 1))

NoRec == [id |-> 0, date |-> 0, category |-> 0]

\* lines 54-60, up to the await: handleAddExpense(newExpenseData).  The server
\* stores the draft under a fresh id and answers with the record, or fails.
handleAddExpense(d, c, ok) ==
  /\ mounted
  /\ IF ~MutationGuard(token)
     THEN UNCHANGED <<muts, srv, nextId, nMut>>
     ELSE /\ nMut < MaxMutations
          /\ LET rec == [id |-> nextId, date |-> d, category |-> c] IN
               /\ muts' = muts (+) SetToBag({[kind |-> "add", ok |-> ok,
                              id |-> IF ok THEN nextId ELSE 0,
                              rec |-> IF ok THEN rec ELSE NoRec]})
               /\ srv' = IF ok THEN Append(srv, rec) ELSE srv
          /\ nextId' = IF ok THEN nextId + 1 ELSE nextId
          /\ nMut' = nMut + 1
  /\ UNCHANGED <<notified, feed, token, mounted, cbPage, cbHasMore, fetches, nFetch, history>>

\* lines 69-75, up to the await: handleUpdateExpense(updatedExpenseData) on a
\* record of the list, with the date and category of the edit form.
handleUpdateExpense(id, d, c, ok) ==
  /\ mounted
  /\ id \in Targets
  /\ IF ~MutationGuard(token)
     THEN UNCHANGED <<muts, srv, nMut>>
     ELSE /\ nMut < MaxMutations
          /\ LET rec == [id |-> id, date |-> d, category |-> c] IN
               /\ muts' = muts (+) SetToBag({[kind |-> "update", ok |-> ok, id |-> id,
                              rec |-> IF ok THEN rec ELSE NoRec]})
               /\ srv' = IF ok THEN SrvUpdate(srv, rec) ELSE srv
          /\ nMut' = nMut + 1
  /\ UNCHANGED <<notified, feed, token, mounted, cbPage, cbHasMore, fetches, nextId, nFetch,
                 history>>

\* lines 84-91, up to the await: handleDeleteExpense(expenseId) on a record of
\* the list.
handleDeleteExpense(id, ok) ==
  /\ mounted
  /\ id \in Targets
  /\ IF ~MutationGuard(token)
     THEN UNCHANGED <<muts, srv, nMut>>
     ELSE /\ nMut < MaxMutations
          /\ muts' = muts (+) SetToBag({[kind |-> "delete", ok |-> ok, id |-> id,
                                         rec |-> NoRec]})
          /\ srv' = IF ok THEN SrvDelete(srv, id) ELSE srv
          /\ nMut' = nMut + 1
  /\ UNCHANGED <<notified, feed, token, mounted, cbPage, cbHasMore, fetches, nextId, nFetch,
                 history>>

\* lines 61, 76, 92: the setExpenses updater of the mutation's kind.
MutationItems(prev, m) ==
  CASE m.kind = "add" -> AddedItems(prev, m.rec)
    [] m.kind = "update" -> UpdatedItems(prev, m.rec)
    [] m.kind = "delete" -> DeletedItems(prev, m.id)

\* As MutationSuccess, with a setIsLoading(false) after the update of the list.
MutationSuccessSettling(m) ==
  /\ BagIn(m, muts)
  /\ m.ok
  /\ expenses' = MutationItems(expenses, m)
  /\ isLoading' = FALSE
  /\ toasts' = toasts + 1
  /\ UNCHANGED <<logouts, redirects, errorToasts>>
  /\ muts' = muts (-) SetToBag({m})
  /\ removed' = IF m.kind = "delete" /\ \E i \in DOMAIN expenses : expenses[i].id = m.id
                THEN removed \cup {m.id}
                ELSE removed
  /\ UNCHANGED <<page, hasMore, token, mounted, cbPage, cbHasMore, fetches,
                 srv, nextId, nFetch, nMut, loads>>

\* lines 61-62, 76-77, 92-93: the continuation of a mutation that succeeded.
MutationSuccess(m) ==
  /\ BagIn(m, muts)
  /\ m.ok
  /\ expenses' = MutationItems(expenses, m)
  /\ toasts' = toasts + 1
  /\ UNCHANGED <<logouts, redirects, errorToasts>>
  /\ muts' = muts (-) SetToBag({m})
  /\ removed' = IF m.kind = "delete" /\ \E i \in DOMAIN expenses : expenses[i].id = m.id
                THEN removed \cup {m.id}
                ELSE removed
  /\ UNCHANGED <<isLoading, page, hasMore, token, mounted, cbPage, cbHasMore, fetches,
                 srv, nextId, nFetch, nMut, loads>>

\* As MutationFailure, without the notification.
MutationFailureSilent(m) ==
  /\ BagIn(m, muts)
  /\ ~m.ok
  /\ muts' = muts (-) SetToBag({m})
  /\ UNCHANGED <<feed, notified, token, mounted, cbPage, cbHasMore, fetches, srv, nextId,
                 nFetch, nMut, history>>

\* lines 63-66, 78-81, 94-97: the continuation of a mutation that failed.
MutationFailure(m) ==
  /\ BagIn(m, muts)
  /\ ~m.ok
  /\ errorToasts' = errorToasts + 1
  /\ UNCHANGED <<logouts, redirects, toasts>>
  /\ muts' = muts (-) SetToBag({m})
  /\ UNCHANGED <<feed, token, mounted, cbPage, cbHasMore, fetches, srv, nextId, nFetch,
                 nMut, history>>

Next ==
  \/ Mount
  \/ \E t \in {NoToken} \cup Tokens : SetToken(t)
  \/ Scroll
  \/ \E f \in BagToSet(fetches) : LoadSuccess(f)
  \/ \E f \in BagToSet(fetches) : LoadFailure(f)
  \/ \E d \in Dates, c \in Categories, ok \in BOOLEAN : handleAddExpense(d, c, ok)
  \/ \E id \in Targets, d \in Dates, c \in Categories, ok \in BOOLEAN :
       handleUpdateExpense(id, d, c, ok)
  \/ \E id \in Targets, ok \in BOOLEAN : handleDeleteExpense(id, ok)
  \/ \E m \in BagToSet(muts) : MutationSuccess(m)
  \/ \E m \in BagToSet(muts) : MutationFailure(m)

Spec == Init /\ [][Next]_vars

\* ---------------------------------------------------------------- claims

Outstanding == BagCardinality(fetches)

\* The step issues a fetchExpenses request.
FetchIssued == nFetch' = nFetch + 1
\* The step is the continuation of the fetch f.
Completes(f) == BagIn(f, fetches) /\ fetches' = fetches (-) SetToBag({f})
\* The step is the continuation of the fetch f, which succeeded / failed.
Succeeds(f) == Completes(f) /\ nLoads' = nLoads + 1
Fails(f) == Completes(f) /\ nLoads' = nLoads

\* C1: no two entries of `expenses` have the same id.
C1_NoDuplicateIds ==
  \A i, j \in DOMAIN expenses : i # j => expenses[i].id # expenses[j].id

\* C2: `expenses` is sorted descending by date in every reachable state: no
\* entry is followed by an entry with a strictly later date.
C2_SortedDescending ==
  \A i, j \in DOMAIN expenses : i < j => expenses[i].date >= expenses[j].date

\* An update that moved the oldest seeded record to a later date has been
\* applied to a loaded list, and the record is no longer the last entry.
C2_Witness ==
  /\ toasts = 1
  /\ Len(expenses) >= PAGE_SIZE - 1
  /\ \E i \in DOMAIN expenses :
       expenses[i].id = 1 /\ expenses[i].date = 3 /\ i < Len(expenses)

\* C3: at most one page fetch is outstanding at any time.
C3_AtMostOneFetch == Outstanding <= 1

\* C4: every fetch that is issued requests the page whose index is the
\* current `page`.
C4_RequestsCursorPage ==
  [][\A f \in BagToSet(fetches') :
       CopiesIn(f, fetches') > CopiesIn(f, fetches) => f.page = page]_vars

\* C5: once hasMore is false it is false in every later state, and the
\* completion of a fetch that returned fewer than PAGE_SIZE records makes it
\* false.
C5_ExhaustedPermanent ==
  [][/\ (~hasMore => ~hasMore')
     /\ \A f \in BagToSet(fetches) :
          (Succeeds(f) /\ Len(f.data) < PAGE_SIZE) => ~hasMore']_vars

\* A short page and a full page have both been loaded, and the feed is
\* exhausted.
C5_Witness ==
  /\ ~hasMore
  /\ nLoads = 2
  /\ BagCardinality(returned) = 2 * PAGE_SIZE - 1

\* C6: in a state where the feed is exhausted (hasMore false) no step issues
\* a fetchExpenses request.
C6_NoFetchWhenExhausted == [][~hasMore => ~FetchIssued]_vars

\* The feed is exhausted while a token is present, nothing is loading, the
\* memoized loadExpenses still holds hasMore = true and the fetch bound leaves
\* room for a request.
C6_Witness ==
  /\ mounted /\ ~hasMore /\ cbHasMore
  /\ token # NoToken /\ ~isLoading
  /\ nFetch < MaxFetches

\* C7: the continuation of a failed fetch calls logout once and redirects
\* once, and leaves no token; no step that ends without a token issues a
\* fetchExpenses request.
C7_FailureLogsOutOnce ==
  [][/\ \A f \in BagToSet(fetches) :
          Fails(f) =>
             /\ logouts' = logouts + 1
             /\ redirects' = redirects + 1
             /\ token' = NoToken
     /\ (token' = NoToken => ~FetchIssued)]_vars

\* A page load has failed, no token is present, and a scroll would pass the
\* guard of handleScroll.
C7_Witness ==
  /\ logouts = 1 /\ redirects = 1 /\ token = NoToken
  /\ ~isLoading /\ hasMore /\ cbHasMore
  /\ nFetch < MaxFetches

\* C8: as long as no mutation has been requested, `expenses` holds the
\* records the successful fetches returned, one entry for each record of each
\* returned page and nothing else, `page` is their number plus one, and
\* hasMore is false exactly when one of the pages was short.
C8_AccumulatedLoads ==
  nMut = 0 =>
    /\ SeqToBag(expenses) = returned
    /\ page = nLoads + 1
    /\ hasMore = ~anyShort

\* Pages of 10 and then 3 records: 13 entries, page 3, exhausted.
C8_Witness ==
  /\ nMut = 0 /\ nLoads = 2
  /\ Len(expenses) = PAGE_SIZE + 3
  /\ Cardinality({expenses[i].id : i \in DOMAIN expenses}) = PAGE_SIZE + 3
  /\ page = 3 /\ ~hasMore

\* C9, as stated: isLoading implies that a fetch is outstanding, in every
\* reachable state, the initial one included.
C9_LoadingOnlyWhileFetching == isLoading => Outstanding >= 1

\* C9, amended: once the effect of the first render has run, isLoading
\* implies that a fetch is outstanding.
C9_LoadingOnlyWhileFetchingMounted == (mounted /\ isLoading) => Outstanding >= 1

\* After a failed load and a new login the view is loading, with the one
\* fetch of the new session outstanding.
C9_Witness ==
  /\ mounted /\ isLoading
  /\ Outstanding = 1
  /\ nFetch = 2 /\ logouts = 1

\* C10: the continuation of a fetch, successful or failed, leaves isLoading
\* false.
C10_CompletionClearsLoading ==
  [][\A f \in BagToSet(fetches) : Completes(f) => ~isLoading']_vars

\* A fetch has succeeded, another has failed, and the view is not loading.
C10_Witness == ~isLoading /\ nLoads = 1 /\ logouts = 1

\* The step is the continuation of the mutation request m.
MutCompletes(m) == BagIn(m, muts) /\ muts' = muts (-) SetToBag({m})

Ids(items) == {items[i].id : i \in DOMAIN items}
InsertAt(items, k, r) == SubSeq(items, 1, k - 1) \o <<r>> \o SubSeq(items, k, Len(items))

\* The step calls loadExpenses while no token is present: the effect of the
\* first render without a token, or the effect after the auth context
\* dropped the token.
NoTokenLoad ==
  /\ token' = NoToken
  /\ \/ ~mounted /\ mounted'
     \/ mounted /\ token # NoToken /\ logouts' = logouts

\* C11: loadExpenses called with no token present issues no fetchExpenses
\* request, leaves isLoading false, does not call logout and leaves
\* `expenses`, `page` and `hasMore` unchanged.
C11_NoTokenLoadIsIdle ==
  [][NoTokenLoad =>
       /\ ~FetchIssued /\ fetches' = fetches
       /\ ~isLoading'
       /\ logouts' = logouts /\ redirects' = redirects
       /\ UNCHANGED <<expenses, page, hasMore>>]_vars

\* The view mounted without a token: it is not loading and nothing was
\* fetched.
C11_Witness == mounted /\ token = NoToken /\ ~isLoading /\ nFetch = 0 /\ logouts = 0

\* C12: the continuation of a failed addExpense, updateExpense or
\* deleteExpense leaves `expenses`, `page`, `hasMore` and `isLoading`
\* unchanged, emits one error notification and does not call logout.
C12_FailedMutationKeepsFeed ==
  [][\A m \in BagToSet(muts) :
       (MutCompletes(m) /\ ~m.ok) =>
          /\ UNCHANGED <<expenses, page, hasMore, isLoading>>
          /\ errorToasts' = errorToasts + 1
          /\ UNCHANGED <<logouts, redirects, toasts, token>>]_vars

\* A mutation has failed on a loaded list while a token is present.
C12_Witness ==
  /\ errorToasts = 1 /\ logouts = 0
  /\ token # NoToken
  /\ Len(expenses) >= PAGE_SIZE - 1

\* C13: the continuation of a successful addExpense inserts the returned
\* record once: `expenses` afterwards is the previous list with the record
\* put at one position, no entry before it has an earlier date and no entry
\* after it a later one.
C13_AddInsertsInOrder ==
  [][\A m \in BagToSet(muts) :
       (MutCompletes(m) /\ m.ok /\ m.kind = "add") =>
          \E k \in 1..(Len(expenses) + 1) :
             /\ expenses' = InsertAt(expenses, k, m.rec)
             /\ \A i \in 1..(k - 1) : expenses[i].date >= m.rec.date
             /\ \A i \in k..Len(expenses) : expenses[i].date <= m.rec.date]_vars

\* A created record sits inside a loaded list, neither first nor last.
C13_Witness ==
  /\ toasts = 1
  /\ \E i \in DOMAIN expenses :
       /\ expenses[i].id >= FirstNewId
       /\ 1 < i /\ i < Len(expenses)

\* C14: the continuation of a successful updateExpense replaces the entries
\* with the returned record's id by the returned record and leaves every
\* other entry, the set of ids and the length as they were; when no entry
\* has that id `expenses` is unchanged.
C14_UpdateReplaces ==
  [][\A m \in BagToSet(muts) :
       (MutCompletes(m) /\ m.ok /\ m.kind = "update") =>
          /\ Len(expenses') = Len(expenses)
          /\ Ids(expenses') = Ids(expenses)
          /\ \A i \in DOMAIN expenses' :
               expenses'[i].id = m.rec.id => expenses'[i] = m.rec
          /\ SelectSeq(expenses', LAMBDA e : e.id # m.rec.id)
               = SelectSeq(expenses, LAMBDA e : e.id # m.rec.id)
          /\ (m.rec.id \notin Ids(expenses) => expenses' = expenses)]_vars

\* The oldest seeded record of a loaded list carries the date and the
\* category of an edit.
C14_Witness ==
  /\ toasts = 1
  /\ Len(expenses) >= PAGE_SIZE - 1
  /\ \E i \in DOMAIN expenses : expenses[i] = [id |-> 1, date |-> 3, category |-> 3]

\* C15: the continuation of a successful deleteExpense(id) leaves no entry
\* with that id, and leaves the other entries as they were and in the same
\* order; when no entry has that id `expenses` is unchanged.
C15_DeleteRemoves ==
  [][\A m \in BagToSet(muts) :
       (MutCompletes(m) /\ m.ok /\ m.kind = "delete") =>
          /\ m.id \notin Ids(expenses')
          /\ expenses' = SelectSeq(expenses, LAMBDA e : e.id # m.id)
          /\ (m.id \notin Ids(expenses) => expenses' = expenses)]_vars

\* The oldest seeded record has been removed from a loaded list.
C15_Witness ==
  /\ removed = {1}
  /\ 1 \notin Ids(expenses)
  /\ 2 \in Ids(expenses)
  /\ Len(expenses) >= PAGE_SIZE - 2

\* C16: allCategories holds exactly the category labels of `expenses`, each
\* once, in ascending order.
C16_CategoriesDistinctSorted ==
  LET cats == {expenses[i].category : i \in DOMAIN expenses} IN
    /\ Range(allCategories) = cats
    /\ Len(allCategories) = Cardinality(cats)
    /\ \A i, j \in DOMAIN allCategories : i < j => allCategories[i] < allCategories[j]

\* A record with a category that the seed data do not have has been added to
\* a loaded list: three categories are derived.
C16_Witness == toasts = 1 /\ allCategories = <<1, 2, 3>>

\* C17: when the token is dropped `expenses` is emptied, and when a token is
\* acquired the feed starts with `expenses` empty, `page` 1 and hasMore true.
C17_FeedResetWithSession ==
  [][/\ (mounted /\ token # NoToken /\ token' = NoToken) => expenses' = <<>>
     /\ (mounted /\ token' # token /\ token' # NoToken) =>
           (expenses' = <<>> /\ page' = 1 /\ hasMore')]_vars

\* C18: with a token, no failure and no mutation so far, a scroll that
\* starts a fetch requests the page after the pages loaded so far.
C18_ScrollLoadsNextPage ==
  [][(/\ mounted /\ token' = token /\ FetchIssued
      /\ nMut = 0 /\ logouts = 0 /\ Outstanding = 0) =>
        \A f \in BagToSet(fetches') : f.page = nLoads + 1]_vars

\* C19: no step taken while no token is present issues an addExpense,
\* updateExpense or deleteExpense call: no request is added, nothing changes
\* on the server.
C19_NoMutationWithoutToken ==
  [][token = NoToken =>
       /\ nMut' = nMut
       /\ srv' = srv
       /\ \A m \in BagToSet(muts') : CopiesIn(m, muts') <= CopiesIn(m, muts)]_vars

\* The view shows a loaded list without a token, and the mutation bound
\* leaves room for a request.
C19_Witness ==
  /\ mounted /\ token = NoToken
  /\ 1 \in Ids(expenses)
  /\ nMut < MaxMutations

\* C20: no entry of `expenses` has the id of an entry that a successful
\* deleteExpense has removed.
C20_RemovedStaysRemoved == \A i \in DOMAIN expenses : expenses[i].id \notin removed

\* C21: when a fetch and a successful mutation on a created record or on an
\* entry of the list are outstanding together, `expenses` holds the same
\* records after both continuations whichever of the two runs first.
C21_RaceOrderIndependent ==
  \A f \in BagToSet(fetches), m \in BagToSet(muts) :
    (m.ok /\ (m.kind = "add" \/ m.id \in Ids(expenses))) =>
       Range(MutationItems(LoadedItems(expenses, f.data), m))
         = Range(LoadedItems(MutationItems(expenses, m), f.data))

\* C22: the continuation of a failed fetch leaves `expenses`, `page` and
\* hasMore unchanged and isLoading false; it emits no notification and
\* touches neither the outstanding mutations nor the server.
C22_FailedLoadKeepsFeed ==
  [][\A f \in BagToSet(fetches) :
       Fails(f) =>
          /\ UNCHANGED <<expenses, page, hasMore>>
          /\ ~isLoading'
          /\ UNCHANGED <<toasts, errorToasts, muts, srv, mounted>>]_vars

\* A page load has succeeded and another has failed: the list holds the full
\* page that was loaded, `page` is 2, the feed is not exhausted and no token
\* is present.
C22_Witness ==
  /\ logouts = 1 /\ nLoads = 1 /\ token = NoToken
  /\ Len(expenses) = PAGE_SIZE /\ page = 2 /\ hasMore
  /\ ~isLoading

\* The step starts an addExpense, updateExpense or deleteExpense call.
MutIssued == nMut' = nMut + 1

\* C23: neither the start nor the continuation, successful or failed, of an
\* addExpense, updateExpense or deleteExpense changes `page`, hasMore or
\* isLoading; `page` never decreases, and it changes only in the continuation
\* of a fetch that succeeded.
C23_MutationsKeepCursor ==
  [][/\ MutIssued => UNCHANGED <<page, hasMore, isLoading>>
     /\ \A m \in BagToSet(muts) :
          MutCompletes(m) => UNCHANGED <<page, hasMore, isLoading>>
     /\ page' >= page
     /\ (page' # page => \E f \in BagToSet(fetches) : Succeeds(f))]_vars

\* A mutation has succeeded while the fetch of a scroll was outstanding: the
\* view is still loading, `page` is still 2 and the feed is not exhausted.
C23_Witness ==
  /\ toasts = 1 /\ nMut = 1 /\ muts = EmptyBag
  /\ isLoading /\ Outstanding = 1
  /\ nLoads = 1 /\ page = 2 /\ hasMore

====
